---- MODULE Spec2Model ----
(***************************************************************************)
(* A model of LegalRAG-Bench: the metric engine (src/metrics/scoring.py),  *)
(* the lexical and the remote retriever (src/retrievers) and the           *)
(* evaluation driver (run_benchmark.py).                                   *)
(*                                                                         *)
(* Python's float is an IEEE-754 binary64.  The metric engine divides and  *)
(* sums floats, and some of its properties are decided by the last bit of  *)
(* a rounded sum, so the model computes these operations bit for bit: a    *)
(* float is a triple of 24-bit limbs <<h, m, l>> standing for              *)
(* (h * 2^48 + m * 2^24 + l) * 2^-69, every operation computes the exact   *)
(* result on that grid and rounds it to 53 significant bits, to nearest,   *)
(* ties to even.  The grid holds every binary64 in [2^-16, 8) and zero,    *)
(* which covers the values the bounded inputs below produce.               *)
(***************************************************************************)
EXTENDS Integers, Sequences, FiniteSets, TLC

\* ---------------------------------------------------------------- bounds
\* Longest ground-truth list and longest prediction list of a query.
MaxG == 2
MaxP == 3
\* Document ids are 1..NumIds.
NumIds == 2
\* Longest list of per-query records that is aggregated.
MaxRecords == 3
\* Largest corpus, and the largest top_k asked for.
MaxDocs == 4
\* Longest candidate list in a response of the remote service.
MaxEntries == 2
\* Most queries of a run.
MaxQueries == 3
\* Most lines of a corpus file and most entries of a query file.
MaxLines == 3
MaxItems == 3

\* ------------------------------------------------------------ variables
VARIABLES
    pc,             \* position of the modelled run
    ground_truth,   \* evaluate_query: the query's law_ids
    predictions,    \* evaluate_query: the predicted ids, in rank order
    cutoff,         \* evaluate_query: k
    metrics,        \* evaluate_query: the per-query metric record
    per_query,      \* aggregate_metrics: the list of per-query records
    averaged,       \* aggregate_metrics: the aggregate record
    retriever,      \* build_retriever: "lexical" or "remote"
    corpus,         \* LawCorpus.documents
    index,          \* LexicalRetriever._index
    query,          \* search: the query text
    top_k,          \* search: top_k
    response,       \* RemoteRetriever: what the HTTP call came to
    retrieved,      \* search: the list it returned
    error,          \* the exception that left the operation ("" for none)
    lines,          \* load_law_corpus: the lines of the corpus file
    data,           \* load_queries: the decoded query file
    queries,        \* main: the loaded queries
    idx,            \* main: the number of queries the loop has taken
    results,        \* main: the result list
    per_source_metrics,   \* main: source |-> its per-query records
    per_source_scores     \* main: source |-> its aggregate record

metricVars == <<ground_truth, predictions, cutoff, metrics>>
aggVars == <<per_query, averaged>>
searchVars == <<query, top_k, response, retrieved, error>>
retrVars == <<retriever, corpus, index, searchVars>>
loadVars == <<lines, data>>
runVars == <<queries, idx, results, per_source_metrics, per_source_scores>>
vars == <<pc, metricVars, aggVars, retrVars, loadVars, runVars>>

\* ------------------------------------------------------- Python values
\* None, as a value no float and no list element is equal to.
None == <<>>
\* None as a list element or as the value of k (ids and cutoffs are >= 0).
NoneInt == -1

Min(a, b) == IF a <= b THEN a ELSE b
Max(a, b) == IF a >= b THEN a ELSE b

\* All sequences over S of length at most n.
SeqsUpTo(S, n) == UNION {[1..m -> S] : m \in 0..n}

\* ------------------------------------------------ binary64 arithmetic
Base == 2^24
FZero == <<0, 0, 0>>
\* The float of a small non-negative integer n (n * 2^69 on the grid).
FromInt(n) == <<n * 2^21, 0, 0>>
FOne == FromInt(1)

BigGeq(a, b) ==
    \/ a[1] > b[1]
    \/ a[1] = b[1] /\ a[2] > b[2]
    \/ a[1] = b[1] /\ a[2] = b[2] /\ a[3] >= b[3]

BigAdd(a, b) ==
    LET l == a[3] + b[3]
        m == a[2] + b[2] + (l \div Base)
    IN  <<a[1] + b[1] + (m \div Base), m % Base, l % Base>>

\* a - b for a >= b.
BigSub(a, b) ==
    LET bl == IF a[3] < b[3] THEN 1 ELSE 0
        l  == a[3] - b[3] + bl * Base
        bm == IF a[2] - bl < b[2] THEN 1 ELSE 0
        m  == a[2] - bl - b[2] + bm * Base
    IN  <<a[1] - bm - b[1], m, l>>

\* The unit in the last place of a float whose leading bit is in limb h.
Ulp(h) == 2^((CHOOSE e \in 5..24 : 2^e <= h /\ h < 2^(e + 1)) - 4)

\* x, exact on the grid (sticky: something below the grid was cut off),
\* rounded to 53 significant bits, to nearest, ties to even.
Round53(x, sticky) ==
    IF x = FZero THEN FZero
    ELSE LET ulp  == Ulp(x[1])
             rem  == x[3] % ulp
             half == ulp \div 2
             odd  == (x[3] \div ulp) % 2 = 1
             up   == rem > half \/ (rem = half /\ (sticky \/ odd))
             kept == <<x[1], x[2], x[3] - rem>>
         IN  IF up THEN BigAdd(kept, <<0, 0, ulp>>) ELSE kept

\* x + y.
FAdd(x, y) == Round53(BigAdd(x, y), FALSE)

\* 2 * a + c for a carry c in {0, 1}.
Dbl(a, c) ==
    LET l == 2 * a[3] + c
        m == 2 * a[2] + (l \div Base)
    IN  <<2 * a[1] + (m \div Base), m % Base, l % Base>>

\* Long division: n more quotient bits of r / y (r < y), q the bits so far.
\* (q is never negative: the test makes the evaluation of q strict.)
RECURSIVE DivBits(_, _, _, _)
DivBits(r, y, q, n) ==
    IF n = 0 \/ q[1] < 0 THEN <<q, r>>
    ELSE LET r2 == Dbl(r, 0)
         IN  IF BigGeq(r2, y)
             THEN DivBits(BigSub(r2, y), y, Dbl(q, 1), n - 1)
             ELSE DivBits(r2, y, Dbl(q, 0), n - 1)

\* The integer part of x / y and the remainder: <<floor(x / y), x mod y>>.
RECURSIVE DivInt(_, _, _)
DivInt(x, y, n) ==
    IF BigGeq(x, y) THEN DivInt(BigSub(x, y), y, n + 1) ELSE <<n, x>>

\* x / n for a small integer n >= 1: limb by limb, the remainder is sticky.
DivSmall(x, n) ==
    LET m == (x[1] % n) * Base + x[2]
        l == (m % n) * Base + x[3]
    IN  Round53(<<x[1] \div n, m \div n, l \div n>>, l % n # 0)

\* Whether y is the float of an integer in 1..127.
IsSmallInt(y) == y[2] = 0 /\ y[3] = 0 /\ y[1] % 2^21 = 0 /\ y[1] \div 2^21 \in 1..127

\* x / y for y # 0: the exact quotient, rounded.
FDiv(x, y) ==
    IF IsSmallInt(y) THEN DivSmall(x, y[1] \div 2^21)
    ELSE LET ip == DivInt(x, y, 0)
             qr == DivBits(ip[2], y, <<0, 0, ip[1]>>, 69)
         IN  Round53(qr[1], qr[2] # FZero)

\* ------------------------------------------------------------- scoring
\* 1 / math.log2(idx + 2) for idx = 0, 1, ..., as binary64 (1-based here).
InvLog2 == <<
    <<2097152, 0, 0>>,
    <<1323155, 9975093, 4063232>>,
    <<1048576, 0, 0>>,
    <<903194, 3441287, 12156928>>,
    <<811289, 2321925, 5242880>>,
    <<747020, 10315604, 14319616>>,
    <<699050, 11184810, 11173888>>,
    <<661577, 13376154, 10420224>> >>

\* _dcg: the loop from position i on, score the sum so far.
RECURSIVE dcg_from(_, _, _)
dcg_from(relevances, i, score) ==
    IF i > Len(relevances) THEN score
    ELSE IF relevances[i] <= 0 THEN dcg_from(relevances, i + 1, score)
    ELSE dcg_from(relevances, i + 1, FAdd(score, InvLog2[i]))

dcg(relevances) == dcg_from(relevances, 1, FZero)

\* {int(doc_id) for doc_id in ground_truth if doc_id is not None}
gt_set(gt) == {gt[i] : i \in DOMAIN gt} \ {NoneInt}

\* list(predictions)[:k] for k >= 0, the whole list for k = None.
truncate(preds, k) ==
    IF k = NoneInt THEN preds ELSE SubSeq(preds, 1, Min(k, Len(preds)))

\* sum(relevances) of a 0/1 list.
RECURSIVE sum_from(_, _)
sum_from(s, i) == IF i > Len(s) THEN 0 ELSE s[i] + sum_from(s, i + 1)

sum_list(s) == sum_from(s, 1)

\* sorted(relevances, reverse=True) of a 0/1 list.
sorted_desc(relevances) ==
    [n \in 1..Len(relevances) |-> IF n <= sum_list(relevances) THEN 1 ELSE 0]

\* compute_ndcg with the textbook ideal, min(|G|, k) ones, in every case.
compute_ndcg_textbook(gt, preds, k) ==
    IF gt_set(gt) = {} THEN None
    ELSE LET kk         == IF k = NoneInt THEN Len(preds) ELSE k
             truncated  == truncate(preds, kk)
             rels       == [i \in 1..Len(truncated) |->
                               IF truncated[i] \in gt_set(gt) THEN 1 ELSE 0]
             ideal_dcg  == dcg([j \in 1..Min(Cardinality(gt_set(gt)), kk) |-> 1])
         IN  IF ideal_dcg = FZero THEN FZero ELSE FDiv(dcg(rels), ideal_dcg)

\* compute_ndcg that reports a zero ideal DCG as "not computed".
compute_ndcg_undefined(gt, preds, k) ==
    IF gt_set(gt) = {} THEN None
    ELSE LET kk         == IF k = NoneInt THEN Len(preds) ELSE k
             truncated  == truncate(preds, kk)
             rels       == [i \in 1..Len(truncated) |->
                               IF truncated[i] \in gt_set(gt) THEN 1 ELSE 0]
             ideal      == IF sum_list(rels) < Cardinality(gt_set(gt))
                           THEN [j \in 1..Min(Cardinality(gt_set(gt)), kk) |-> 1]
                           ELSE sorted_desc(rels)
         IN  IF dcg(ideal) = FZero THEN None ELSE FDiv(dcg(rels), dcg(ideal))

compute_ndcg(gt, preds, k) ==
    IF gt_set(gt) = {} THEN None
    ELSE LET kk         == IF k = NoneInt THEN Len(preds) ELSE k
             truncated  == truncate(preds, kk)
             rels       == [i \in 1..Len(truncated) |->
                               IF truncated[i] \in gt_set(gt) THEN 1 ELSE 0]
             ideal      == IF sum_list(rels) < Cardinality(gt_set(gt))
                           THEN [j \in 1..Min(Cardinality(gt_set(gt)), kk) |-> 1]
                           ELSE sorted_desc(rels)
             actual_dcg == dcg(rels)
             ideal_dcg  == dcg(ideal)
         IN  IF ideal_dcg = FZero THEN FZero ELSE FDiv(actual_dcg, ideal_dcg)

\* compute_recall that counts the hits in the list, not in its set.
compute_recall_list(gt, preds, k) ==
    IF gt_set(gt) = {} THEN None
    ELSE LET t == truncate(preds, k)
         IN  FDiv(FromInt(Cardinality({i \in DOMAIN t : t[i] \in gt_set(gt)})),
                  FromInt(Cardinality(gt_set(gt))))

compute_recall(gt, preds, k) ==
    IF gt_set(gt) = {} THEN None
    ELSE LET t         == truncate(preds, k)
             truncated == {t[i] : i \in DOMAIN t}
         IN  FDiv(FromInt(Cardinality(gt_set(gt) \cap truncated)),
                  FromInt(Cardinality(gt_set(gt))))

\* compute_mrr's loop over search_space from position i on.
RECURSIVE mrr_from(_, _, _)
mrr_from(gts, search_space, i) ==
    IF i > Len(search_space) THEN FZero
    ELSE IF search_space[i] \in gts THEN FDiv(FOne, FromInt(i))
    ELSE mrr_from(gts, search_space, i + 1)

\* compute_mrr that searches the whole list, whatever k is.
compute_mrr_untruncated(gt, preds, k) ==
    IF gt_set(gt) = {} THEN None
    ELSE mrr_from(gt_set(gt), preds, 1)

\* compute_mrr without the test for an empty ground truth.
compute_mrr_unlabelled(gt, preds, k) == mrr_from(gt_set(gt), truncate(preds, k), 1)

compute_mrr(gt, preds, k) ==
    IF gt_set(gt) = {} THEN None
    ELSE mrr_from(gt_set(gt), truncate(preds, k), 1)

evaluate_query(gt, preds, k) ==
    [ndcg   |-> compute_ndcg(gt, preds, k),
     recall |-> compute_recall(gt, preds, k),
     mrr    |-> compute_mrr(gt, preds, k)]

\* ------------------------------------------------------------- texts
\* A text is a sequence of characters: "a", "A", "b" (Latin letters),
\* "han" (one CJK ideograph, U+4E00..U+9FFF), " " and ",".
IsWordChar(ch) == ch \in {"a", "A", "b", "han"}
IsCjk(ch) == ch = "han"
lower(ch) == IF ch = "A" THEN "a" ELSE ch
\* str.strip() leaves nothing.
IsBlank(text) == \A i \in DOMAIN text : text[i] = " "

\* _TOKEN_PATTERN.findall, lower-cased: the maximal runs of word characters
\* from position i on, run the run read so far.
RECURSIVE word_tokens(_, _, _)
word_tokens(text, i, run) ==
    IF i > Len(text) THEN (IF run = <<>> THEN <<>> ELSE <<run>>)
    ELSE IF IsWordChar(text[i])
         THEN word_tokens(text, i + 1, Append(run, lower(text[i])))
         ELSE (IF run = <<>> THEN <<>> ELSE <<run>>) \o word_tokens(text, i + 1, <<>>)

\* [ch for ch in text if U+4E00 <= ch <= U+9FFF], each a term.
RECURSIVE cjk_chars(_, _)
cjk_chars(text, i) ==
    IF i > Len(text) THEN <<>>
    ELSE IF IsCjk(text[i]) THEN <<<<text[i]>>>> \o cjk_chars(text, i + 1)
    ELSE cjk_chars(text, i + 1)

tokenize(text) == word_tokens(text, 1, <<>>) \o cjk_chars(text, 1)

\* Counter(tokens): term |-> frequency.
Counter(tokens) ==
    [term \in {tokens[i] : i \in DOMAIN tokens} |->
        Cardinality({i \in DOMAIN tokens : tokens[i] = term})]

\* ---------------------------------------------------- lexical retriever
\* The retriever's weights, norms and scores are kept in thousandths, rounded
\* down: 1.0 is Unit.  This fixes the order of the results, their number and
\* the scores to within 0.003 of the floats' on the corpora of Contents;
\* it is not the floats' bit pattern.  LnMilli[n] is math.log(n) in
\* thousandths; the log of a ratio is a difference of two.
Unit == 1000
LnMilli == <<0, 693, 1099, 1386, 1609, 1792, 1946, 2079>>

\* math.sqrt, rounded down: Newton's iteration from x.
RECURSIVE sqrt_from(_, _)
sqrt_from(n, x) ==
    LET y == (x + n \div x) \div 2
    IN  IF y >= x THEN x ELSE sqrt_from(n, y)
sqrt(n) == IF n = 0 THEN 0 ELSE sqrt_from(n, n)

\* sum of f over the finite set S.
RECURSIVE SumOver(_, _)
SumOver(S, f) ==
    IF S = {} THEN 0
    ELSE LET x == CHOOSE y \in S : TRUE IN f[x] + SumOver(S \ {x}, f)

\* tf = 1.0 + math.log(freq)
tf(freq) == Unit + LnMilli[freq]

\* _build_index: one node per document, in corpus order.
build_index(documents) ==
    LET doc_count == Len(documents)
        counts(d) == Counter(tokenize(documents[d].content))
        df(term)  == Cardinality({d \in DOMAIN documents : term \in DOMAIN counts(d)})
        idf(term) == LnMilli[doc_count + 1] - LnMilli[df(term) + 1] + Unit
        vector(d) == [term \in DOMAIN counts(d) |->
                         (tf(counts(d)[term]) * idf(term)) \div Unit]
        sq(d)     == [term \in DOMAIN counts(d) |-> vector(d)[term] * vector(d)[term]]
        norm(d)   == SumOver(DOMAIN counts(d), sq(d))
    IN  [d \in 1..doc_count |->
            [doc    |-> documents[d],
             vector |-> vector(d),
             norm   |-> IF norm(d) > 0 THEN sqrt(norm(d)) ELSE Unit]]

\* _vectorize_query: <<vector, norm>>.
vectorize_query(text) ==
    LET counts == Counter(tokenize(text))
        vector == [term \in DOMAIN counts |-> tf(counts[term])]
        norm   == SumOver(DOMAIN counts, [term \in DOMAIN counts |-> vector[term] * vector[term]])
    IN  <<vector, IF norm > 0 THEN sqrt(norm) ELSE Unit>>

\* The dot product of search's inner loop.
dot(query_vec, doc_vec) ==
    SumOver(DOMAIN query_vec \cap DOMAIN doc_vec,
            [term \in DOMAIN query_vec \cap DOMAIN doc_vec |->
                query_vec[term] * doc_vec[term]])

\* search's loop keeping the documents with a zero dot product too.
RECURSIVE scored_all(_, _, _)
scored_all(nodes, qv, i) ==
    IF i > Len(nodes) THEN <<>>
    ELSE <<[law_id  |-> nodes[i].doc.doc_id,
            score   |-> dot(qv[1], nodes[i].vector) \div ((qv[2] * nodes[i].norm) \div Unit),
            content |-> nodes[i].doc.content]>>
         \o scored_all(nodes, qv, i + 1)

\* search's loop over the index: the candidates with a non-zero dot
\* product, in index order, each with its cosine score.
RECURSIVE scored(_, _, _)
scored(nodes, qv, i) ==
    IF i > Len(nodes) THEN <<>>
    ELSE LET score == dot(qv[1], nodes[i].vector)
         IN  IF score = 0 THEN scored(nodes, qv, i + 1)
             ELSE <<[law_id  |-> nodes[i].doc.doc_id,
                     score   |-> score \div ((qv[2] * nodes[i].norm) \div Unit),
                     content |-> nodes[i].doc.content]>>
                  \o scored(nodes, qv, i + 1)

\* A sort that puts item before the entries of its own score.
insert_desc_unstable(sorted, item) ==
    LET before == Cardinality({i \in DOMAIN sorted : sorted[i].score > item.score})
    IN  SubSeq(sorted, 1, before) \o <<item>> \o SubSeq(sorted, before + 1, Len(sorted))

\* scores.sort(key=score, reverse=True): stable, so item goes in after the
\* entries of sorted whose score is at least its own.
insert_desc(sorted, item) ==
    LET before == Cardinality({i \in DOMAIN sorted : sorted[i].score >= item.score})
    IN  SubSeq(sorted, 1, before) \o <<item>> \o SubSeq(sorted, before + 1, Len(sorted))

RECURSIVE sort_desc(_, _)
sort_desc(scores, n) ==
    IF n = 0 THEN <<>> ELSE insert_desc(sort_desc(scores, n - 1), scores[n])

\* A search that writes back: it leaves every node with the norm 1.0.
index_after_normalized(nodes, text) ==
    [i \in DOMAIN nodes |-> [nodes[i] EXCEPT !.norm = Unit]]

\* self._index after search(text): search and _vectorize_query assign to
\* locals only.
index_after(nodes, text) == nodes

\* LexicalRetriever.search that cuts the list one entry short.
lexical_search_short(nodes, text, k) ==
    IF IsBlank(text) THEN <<>>
    ELSE LET scores == scored(nodes, vectorize_query(text), 1)
         IN  SubSeq(sort_desc(scores, Len(scores)), 1, Min(k - 1, Len(scores)))

\* LexicalRetriever.search for top_k >= 0.
lexical_search(nodes, text, k) ==
    IF IsBlank(text) THEN <<>>
    ELSE LET scores == scored(nodes, vectorize_query(text), 1)
         IN  SubSeq(sort_desc(scores, Len(scores)), 1, Min(k, Len(scores)))

\* ----------------------------------------------------- remote retriever
\* What requests.post, raise_for_status and response.json() come to:
\*   kind    "timeout", "error" (transport error or non-2xx status),
\*           "undecodable" (json() raises ValueError) or "json";
\*   top     the decoded body: "object" or "array";
\*   result  the body's "result": "absent", "null", "number" or "list";
\*   first   result[0]: "none" (empty list), "null", "number" or "list";
\*   entries result[0] when it is a list.
\* An entry of that list:
\*   entry    "object" or "string";
\*   document its "document": "absent", "object", "string" or "null";
\*   id, doc_id  the document's ids: an integer, NoneInt (absent) or
\*            TextId (a string that is no number);
\*   score    its "score": "absent", "number", "text" or "null";
\*   value    the number of a "number" score, in thousandths.
TextId == -2

Failure(kind) ==
    [kind |-> kind, top |-> "object", result |-> "absent", first |-> "none",
     entries |-> <<>>]
Body(top, result, first, entries) ==
    [kind |-> "json", top |-> top, result |-> result, first |-> first,
     entries |-> entries]
Entry(entry, document, id, doc_id, score) ==
    [entry |-> entry, document |-> document, id |-> id, doc_id |-> doc_id,
     score |-> score, value |-> 900]

\* LawCorpus.get: _by_id keeps the last document of an id; None without.
corpus_get(documents, law_id) ==
    LET at == {d \in DOMAIN documents : documents[d].doc_id = law_id}
    IN  IF at = {} THEN None
        ELSE documents[CHOOSE d \in at : \A e \in at : e <= d]

\* _materialize_doc: the content of the document, "" without one.
materialize_doc(documents, law_id) ==
    IF corpus_get(documents, law_id) = None THEN <<>>
    ELSE corpus_get(documents, law_id).content

\* _call_service: [error, value]; value "list" stands for resp.entries and
\* "number" for a result[0] that is a number.
call_service(resp) ==
    IF resp.kind # "json" THEN [error |-> "", value |-> "empty"]
    ELSE IF resp.top # "object" THEN [error |-> "AttributeError", value |-> "empty"]
    ELSE IF resp.result \in {"absent", "null"} THEN [error |-> "", value |-> "empty"]
    ELSE IF resp.result = "number" THEN [error |-> "TypeError", value |-> "empty"]
    ELSE IF resp.first \in {"none", "null"} THEN [error |-> "", value |-> "empty"]
    ELSE IF resp.first = "number" THEN [error |-> "", value |-> "number"]
    ELSE [error |-> "", value |-> "list"]

\* document.get("id") or document.get("doc_id"); a document that is absent
\* or an entry that is no object has neither.
doc_id_of(e) ==
    IF e.entry # "object" \/ e.document = "absent" THEN NoneInt
    ELSE IF e.id # NoneInt /\ e.id # 0 THEN e.id
    ELSE e.doc_id

\* search's loop from entry i on: [error, docs].
RECURSIVE remote_loop(_, _, _, _, _)
remote_loop(documents, entries, k, i, docs) ==
    IF i > Len(entries) THEN [error |-> "", docs |-> docs]
    ELSE LET e == entries[i]
         IN  IF e.entry = "object" /\ e.document \in {"string", "null"}
             THEN [error |-> "AttributeError", docs |-> <<>>]
             ELSE IF doc_id_of(e) \in {NoneInt, TextId}
             THEN remote_loop(documents, entries, k, i + 1, docs)
             ELSE IF e.score = "text" THEN [error |-> "ValueError", docs |-> <<>>]
             ELSE IF e.score = "null" THEN [error |-> "TypeError", docs |-> <<>>]
             ELSE LET more == Append(docs,
                                 [law_id  |-> doc_id_of(e),
                                  score   |-> IF e.score = "absent" THEN 0 ELSE e.value,
                                  content |-> materialize_doc(documents, doc_id_of(e))])
                  IN  IF Len(more) >= k THEN [error |-> "", docs |-> more]
                      ELSE remote_loop(documents, entries, k, i + 1, more)

\* RemoteRetriever.search: [error, docs].
remote_search(documents, resp, text, k) ==
    IF IsBlank(text) THEN [error |-> "", docs |-> <<>>]
    ELSE LET raw == call_service(resp)
         IN  IF raw.error # "" THEN [error |-> raw.error, docs |-> <<>>]
             ELSE IF raw.value = "empty" THEN [error |-> "", docs |-> <<>>]
             ELSE IF raw.value = "number" THEN [error |-> "TypeError", docs |-> <<>>]
             ELSE remote_loop(documents, resp.entries, k, 1, <<>>)

\* ------------------------------------------ specification: retrieval
\* The contents of the corpus, and the queries: "a b", "A b", "a a b",
\* "a", one ideograph, " ", "," and, as a query, the empty string.
Contents ==
    {<<"a", " ", "b">>, <<"A", " ", "b">>, <<"a", " ", "a", " ", "b">>, <<"a">>,
     <<"han">>, <<" ">>, <<",">>}
Queries == Contents \cup {<<>>}
EntryPool ==
    {Entry("object", "object", 1, NoneInt, "number"),
     Entry("object", "object", NoneInt, 2, "absent"),
     Entry("string", "absent", NoneInt, NoneInt, "absent"),
     Entry("object", "absent", NoneInt, NoneInt, "number"),
     Entry("object", "string", NoneInt, NoneInt, "number"),
     Entry("object", "object", TextId, NoneInt, "number"),
     Entry("object", "object", 1, NoneInt, "text"),
     Entry("object", "object", 2, NoneInt, "null")}
Responses ==
    {Failure("timeout"), Failure("error"), Failure("undecodable"),
     Body("array", "absent", "none", <<>>),
     Body("object", "absent", "none", <<>>),
     Body("object", "null", "none", <<>>),
     Body("object", "number", "none", <<>>),
     Body("object", "list", "none", <<>>),
     Body("object", "list", "null", <<>>),
     Body("object", "list", "number", <<>>)}
    \cup {Body("object", "list", "list", es) : es \in SeqsUpTo(EntryPool, MaxEntries)}

\* No search is under way.
NoSearch ==
    /\ query = <<>> /\ top_k = 0 /\ response = Failure("timeout")
    /\ retrieved = <<>> /\ error = ""
\* The run has no retriever.
NoRetriever ==
    /\ retriever = "none" /\ corpus = <<>> /\ index = <<>> /\ NoSearch
\* No file is being loaded and no evaluation loop is running.
NoRun ==
    /\ lines = <<>> /\ data = <<>> /\ queries = <<>> /\ idx = 0 /\ results = <<>>
    /\ per_source_metrics = <<>> /\ per_source_scores = <<>>
NoMetrics ==
    /\ ground_truth = <<>> /\ predictions = <<>> /\ cutoff = NoneInt
    /\ metrics = None /\ per_query = <<>> /\ averaged = None

\* build_retriever("lexical", corpus): the index is built at construction.
InitLexical ==
    /\ retriever = "lexical"
    /\ corpus \in {[d \in DOMAIN c |-> [doc_id |-> d, content |-> c[d]]] :
                      c \in SeqsUpTo(Contents, MaxDocs)}
    /\ index = build_index(corpus)

\* build_retriever("remote", corpus, params): no index.
InitRemote ==
    /\ retriever = "remote"
    /\ corpus = <<[doc_id |-> 1, content |-> <<"a", " ", "b">>]>>
    /\ index = <<>>

InitRetrieve ==
    /\ pc = "ready"
    /\ InitLexical \/ InitRemote
    /\ NoSearch
    /\ NoMetrics
    /\ NoRun

LexicalSearch ==
    /\ pc = "ready" /\ retriever = "lexical"
    /\ \E text \in Queries, k \in 0..MaxDocs :
           /\ query' = text /\ top_k' = k
           /\ retrieved' = lexical_search(index, text, k)
           /\ index' = index_after(index, text)
    /\ error' = ""
    /\ pc' = "searched"
    /\ UNCHANGED <<retriever, corpus, response, metricVars, aggVars, loadVars, runVars>>

RemoteSearch ==
    /\ pc = "ready" /\ retriever = "remote"
    /\ \E text \in {<<"a", " ", "b">>, <<" ">>}, k \in 0..MaxDocs, resp \in Responses :
           /\ query' = text /\ top_k' = k /\ response' = resp
           /\ retrieved' = remote_search(corpus, resp, text, k).docs
           /\ error' = remote_search(corpus, resp, text, k).error
    /\ pc' = "searched"
    /\ UNCHANGED <<retriever, corpus, index, metricVars, aggVars, loadVars, runVars>>

\* The driver goes on to its next query.
NextQuery ==
    /\ pc = "searched" /\ error = ""
    /\ pc' = "ready"
    /\ query' = <<>> /\ top_k' = 0 /\ response' = Failure("timeout")
    /\ retrieved' = <<>>
    /\ UNCHANGED <<retriever, corpus, index, error, metricVars, aggVars, loadVars, runVars>>

NextRetrieve == LexicalSearch \/ RemoteSearch \/ NextQuery

SpecRetrieve == InitRetrieve /\ [][NextRetrieve]_vars

\* ------------------------------------------- specification: one query
Ids == 1..NumIds
GroundTruths == SeqsUpTo(Ids \cup {NoneInt}, MaxG)
Predictions == SeqsUpTo(Ids, MaxP)
Cutoffs == (0..(MaxP + 1)) \cup {NoneInt}

InitMetrics ==
    /\ pc = "input"
    /\ ground_truth \in GroundTruths
    /\ predictions \in Predictions
    /\ cutoff \in Cutoffs
    /\ metrics = None
    /\ per_query = <<>> /\ averaged = None
    /\ NoRetriever
    /\ NoRun

EvaluateQuery ==
    /\ pc = "input"
    /\ metrics' = evaluate_query(ground_truth, predictions, cutoff)
    /\ pc' = "evaluated"
    /\ UNCHANGED <<ground_truth, predictions, cutoff, aggVars, retrVars, loadVars, runVars>>

NextMetrics == EvaluateQuery

SpecMetrics == InitMetrics /\ [][NextMetrics]_vars

\* --------------------------------------------------------- aggregation
Keys == {"ndcg", "recall", "mrr"}

\* The state of aggregate_metrics before its loop.
agg_start ==
    [totals      |-> [key \in Keys |-> FZero],
     counts      |-> [key \in Keys |-> 0],
     num_queries |-> 0,
     hit_count   |-> 0]

\* One pass of the loop body over entry (entry.get(key) is None for a key
\* that is missing or None).
agg_entry(acc, entry) ==
    [totals      |-> [key \in Keys |->
                         IF entry[key] = None THEN acc.totals[key]
                         ELSE FAdd(acc.totals[key], entry[key])],
     counts      |-> [key \in Keys |->
                         IF entry[key] = None THEN acc.counts[key]
                         ELSE acc.counts[key] + 1],
     num_queries |-> acc.num_queries + 1,
     hit_count   |-> IF entry.recall # None /\ entry.recall # FZero
                     THEN acc.hit_count + 1 ELSE acc.hit_count]

RECURSIVE agg_loop(_, _, _)
agg_loop(acc, entries, i) ==
    IF i > Len(entries) THEN acc
    ELSE agg_loop(agg_entry(acc, entries[i]), entries, i + 1)

\* The averaged record built from the loop's final state.
agg_result(acc) ==
    [ndcg   |-> IF acc.counts["ndcg"] # 0
                THEN FDiv(acc.totals["ndcg"], FromInt(acc.counts["ndcg"])) ELSE None,
     recall |-> IF acc.counts["recall"] # 0
                THEN FDiv(acc.totals["recall"], FromInt(acc.counts["recall"])) ELSE None,
     mrr    |-> IF acc.counts["mrr"] # 0
                THEN FDiv(acc.totals["mrr"], FromInt(acc.counts["mrr"])) ELSE None,
     evaluated_queries |->
         Max(acc.counts["ndcg"], Max(acc.counts["recall"], acc.counts["mrr"])),
     total_queries |-> acc.num_queries,
     hit_rate |-> IF acc.num_queries # 0
                  THEN FDiv(FromInt(acc.hit_count), FromInt(acc.num_queries))
                  ELSE None]

\* The loop leaving at the first entry without recall (break for continue).
RECURSIVE agg_loop_break(_, _, _)
agg_loop_break(acc, entries, i) ==
    IF i > Len(entries) \/ entries[i].recall = None THEN acc
    ELSE agg_loop_break(agg_entry(acc, entries[i]), entries, i + 1)

aggregate_metrics_break(entries) == agg_result(agg_loop_break(agg_start, entries, 1))

\* The loop counting a missing value as a computed 0.0.
agg_entry_zero(acc, entry) ==
    agg_entry(acc, [key \in Keys |-> IF entry[key] = None THEN FZero ELSE entry[key]])

RECURSIVE agg_loop_zero(_, _, _)
agg_loop_zero(acc, entries, i) ==
    IF i > Len(entries) THEN acc
    ELSE agg_loop_zero(agg_entry_zero(acc, entries[i]), entries, i + 1)

aggregate_metrics_zero(entries) == agg_result(agg_loop_zero(agg_start, entries, 1))

\* hit_rate over the evaluated queries instead of over all queries.
aggregate_metrics_hit_evaluated(entries) ==
    LET acc == agg_loop(agg_start, entries, 1)
        res == agg_result(acc)
    IN  [res EXCEPT !.hit_rate =
            IF res.evaluated_queries # 0
            THEN FDiv(FromInt(acc.hit_count), FromInt(res.evaluated_queries))
            ELSE None]

aggregate_metrics(entries) == agg_result(agg_loop(agg_start, entries, 1))

\* ----------------------------------- specification: one aggregation
\* Per-query records as evaluate_query returns them, and one dict that
\* carries an ndcg only.
NoRecord    == evaluate_query(<<>>, <<1>>, 3)
ZeroRecord  == evaluate_query(<<1>>, <<2>>, 3)
FullRecord  == evaluate_query(<<1>>, <<1>>, 3)
HalfRecord  == evaluate_query(<<1, 2>>, <<3, 1>>, 2)
ThirdRecord == evaluate_query(<<1, 2, 3>>, <<4, 5, 1>>, 3)
NdcgOnly    == [ndcg |-> FOne, recall |-> None, mrr |-> None]
RecordPool ==
    {NoRecord, ZeroRecord, FullRecord, HalfRecord, ThirdRecord, NdcgOnly}

InitAggregate ==
    /\ pc = "records"
    /\ per_query \in SeqsUpTo(RecordPool, MaxRecords)
    /\ averaged = None
    /\ ground_truth = <<>> /\ predictions = <<>> /\ cutoff = NoneInt
    /\ metrics = None
    /\ NoRetriever
    /\ NoRun

Aggregate ==
    /\ pc = "records"
    /\ averaged' = aggregate_metrics(per_query)
    /\ pc' = "aggregated"
    /\ UNCHANGED <<per_query, metricVars, retrVars, loadVars, runVars>>

NextAggregate == Aggregate

SpecAggregate == InitAggregate /\ [][NextAggregate]_vars

\* --------------------------------------- specification: one run
\* A loaded query: its text (never blank), its ground-truth ids and its
\* source label, "" for None (and for a label that is blank).
Example(text, law_ids, source) ==
    [query |-> text, law_ids |-> law_ids, source |-> source]

\* source_key = example.source or "unspecified"
source_key(example) ==
    IF example.source = "" THEN "unspecified" ELSE example.source

\* retriever.search(example.query, top_k=top_k) of either retriever.
search(kind, documents, nodes, resp, text, k) ==
    IF kind = "lexical"
    THEN [error |-> "", docs |-> lexical_search(nodes, text, k)]
    ELSE remote_search(documents, resp, text, k)

\* [doc.law_id for doc in retrieved]
predicted_ids(docs) == [i \in DOMAIN docs |-> docs[i].law_id]

\* predictions_payload, without the names and snippets.
predictions_payload(docs) ==
    [i \in DOMAIN docs |-> [law_id |-> docs[i].law_id, score |-> docs[i].score]]

\* An assignment per_source_metrics[key] = [entry] for the append.
source_append_reset(by_source, key, entry) ==
    [s \in DOMAIN by_source \cup {key} |-> IF s # key THEN by_source[s] ELSE <<entry>>]

\* per_source_metrics[key].append(entry) on a defaultdict(list).
source_append(by_source, key, entry) ==
    [s \in DOMAIN by_source \cup {key} |->
        IF s # key THEN by_source[s]
        ELSE IF key \in DOMAIN by_source THEN Append(by_source[key], entry)
        ELSE <<entry>>]

\* {source: aggregate_metrics(entries) for source, entries in ...}
per_source_aggregate(by_source) ==
    [s \in DOMAIN by_source |-> aggregate_metrics(by_source[s])]

ExamplePool ==
    {Example(<<"a", " ", "b">>, <<1>>, "s1"),
     Example(<<"a">>, <<2, 1>>, ""),
     Example(<<",">>, <<1>>, "s2"),
     Example(<<"a", " ", "b">>, <<>>, "s1")}
RunCorpus ==
    <<[doc_id |-> 1, content |-> <<"a", " ", "b">>],
      [doc_id |-> 2, content |-> <<"a">>]>>
RunResponses ==
    {Failure("timeout"),
     Body("object", "list", "list", <<Entry("object", "object", 1, NoneInt, "number")>>),
     Body("object", "list", "list", <<Entry("object", "object", 2, NoneInt, "number"),
                                      Entry("object", "object", NoneInt, 1, "absent")>>),
     Body("object", "list", "list", <<Entry("object", "object", 1, NoneInt, "text")>>)}

\* main up to the loop: queries and corpus are loaded, the retriever is
\* built, the three lists are empty.
InitRun ==
    /\ pc = "loop"
    /\ queries \in SeqsUpTo(ExamplePool, MaxQueries)
    /\ corpus = RunCorpus
    /\ \/ retriever = "lexical" /\ index = build_index(RunCorpus)
       \/ retriever = "remote" /\ index = <<>>
    /\ top_k \in 1..2
    /\ query = <<>> /\ response = Failure("timeout") /\ retrieved = <<>> /\ error = ""
    /\ NoMetrics
    /\ idx = 0 /\ results = <<>>
    /\ per_source_metrics = <<>> /\ per_source_scores = <<>>
    /\ lines = <<>> /\ data = <<>>

\* One pass of the loop body over example, the service answering resp:
\* the exception of search ("" for none), what search returned, the
\* query's record and its result entry.
loop_body(example, kind, documents, nodes, resp, k) ==
    LET found  == search(kind, documents, nodes, resp, example.query, k)
        record == evaluate_query(example.law_ids, predicted_ids(found.docs), k)
    IN  [error       |-> found.error,
         index       |-> IF kind = "lexical" THEN index_after(nodes, example.query)
                         ELSE nodes,
         retrieved   |-> found.docs,
         predictions |-> predicted_ids(found.docs),
         metrics     |-> record,
         result      |-> [query       |-> example.query,
                          law_ids     |-> example.law_ids,
                          source      |-> example.source,
                          predictions |-> predictions_payload(found.docs),
                          metrics     |-> record]]

\* One pass of the loop; an exception of search leaves main.
ProcessQuery ==
    /\ pc = "loop" /\ idx < Len(queries)
    /\ \E resp \in (IF retriever = "remote" THEN RunResponses ELSE {response}) :
       \E pass \in {loop_body(queries[idx + 1], retriever, corpus, index, resp, top_k)} :
           /\ response' = resp
           /\ query' = queries[idx + 1].query
           /\ error' = pass.error
           /\ retrieved' = pass.retrieved
           /\ index' = pass.index
           /\ IF pass.error # ""
              THEN /\ pc' = "failed"
                   /\ UNCHANGED <<metricVars, per_query, idx, results, per_source_metrics>>
              ELSE /\ pc' = "loop"
                   /\ idx' = idx + 1
                   /\ ground_truth' = queries[idx + 1].law_ids
                   /\ predictions' = pass.predictions
                   /\ cutoff' = top_k
                   /\ metrics' = pass.metrics
                   /\ per_query' = Append(per_query, pass.metrics)
                   /\ per_source_metrics' =
                          source_append(per_source_metrics,
                                        source_key(queries[idx + 1]), pass.metrics)
                   /\ results' = Append(results, pass.result)
    /\ UNCHANGED <<retriever, corpus, top_k, averaged, queries,
                   per_source_scores, loadVars>>

\* After the loop: the overall and the per-source aggregates.
AggregateRun ==
    /\ pc = "loop" /\ idx = Len(queries)
    /\ averaged' = aggregate_metrics(per_query)
    /\ per_source_scores' = per_source_aggregate(per_source_metrics)
    /\ pc' = "aggregated"
    /\ UNCHANGED <<metricVars, per_query, retrVars, loadVars, queries, idx, results,
                   per_source_metrics>>

NextRun == ProcessQuery \/ AggregateRun

SpecRun == InitRun /\ [][NextRun]_vars
\* main is a sequential program: while it is in the loop it takes its next
\* step.  Every step of NextRun moves pc or idx, and one is possible
\* whenever pc = "loop", so the fairness of NextRun is stated on the
\* two counters alone.
Progress ==
    /\ pc = "loop"
    /\ pc' \in {"loop", "failed", "aggregated"}
    /\ idx' \in {idx, idx + 1}
SpecRunFair == SpecRun /\ WF_<<pc, idx>>(Progress)

\* ------------------------------------------------------------ loaders
\* A line of the corpus file:
\*   kind     "blank", "garbage" (no JSON), "array" (JSON, but no object)
\*            or "object";
\*   id       the object's "id": an integer, NoneInt (absent or null) or
\*            TextId (a string that is no number);
\*   content  the object's "content".
Line(kind, id, content) == [kind |-> kind, id |-> id, content |-> content]

\* load_law_corpus's loop from line i on (limit is None in main):
\* [error, documents].
RECURSIVE corpus_loop(_, _, _)
corpus_loop(file, i, documents) ==
    IF i > Len(file) THEN [error |-> "", documents |-> documents]
    ELSE IF file[i].kind \in {"blank", "garbage"} THEN corpus_loop(file, i + 1, documents)
    ELSE IF file[i].kind # "object" THEN [error |-> "AttributeError", documents |-> <<>>]
    ELSE IF file[i].id \in {NoneInt, TextId} THEN corpus_loop(file, i + 1, documents)
    ELSE corpus_loop(file, i + 1,
             Append(documents, [doc_id |-> file[i].id, content |-> file[i].content]))

load_law_corpus(file) ==
    LET done == corpus_loop(file, 1, <<>>)
    IN  IF done.error = "" /\ done.documents = <<>>
        THEN [error |-> "ValueError", documents |-> <<>>]
        ELSE done

\* An entry of the query file's array:
\*   kind      "object" or "string";
\*   query     its "query": "absent", "empty", "blank", "number" or "text";
\*   question  its "question": "absent" or "text";
\*   law_ids   its "law_ids": "absent", "null", "number" or "list";
\*   ids       the values of a "list": integers, NoneInt (null) and TextId;
\*   source    its "source", "" for none.
Item(kind, q, question, law_ids, ids, source) ==
    [kind |-> kind, query |-> q, question |-> question, law_ids |-> law_ids,
     ids |-> ids, source |-> source]
QueryText == <<"a", " ", "b">>
QuestionText == <<"a">>

\* (item.get("query") or item.get("question") or "").strip(): [error, text].
query_of(item) ==
    IF item.query = "text" THEN [error |-> "", text |-> QueryText]
    ELSE IF item.query = "blank" THEN [error |-> "", text |-> <<>>]
    ELSE IF item.query = "number" THEN [error |-> "AttributeError", text |-> <<>>]
    ELSE IF item.question = "text" THEN [error |-> "", text |-> QuestionText]
    ELSE [error |-> "", text |-> <<>>]

\* _normalize_law_ids of a list.
IsCoercible(value) == value # NoneInt /\ value # TextId
normalize_law_ids(raw_ids) == SelectSeq(raw_ids, IsCoercible)

\* load_queries's loop from entry i on (limit is None): [error, examples].
RECURSIVE queries_loop(_, _, _)
queries_loop(items, i, examples) ==
    IF i > Len(items) THEN [error |-> "", examples |-> examples]
    ELSE IF items[i].kind # "object" THEN queries_loop(items, i + 1, examples)
    ELSE IF query_of(items[i]).error # ""
    THEN [error |-> query_of(items[i]).error, examples |-> <<>>]
    ELSE IF query_of(items[i]).text = <<>> THEN queries_loop(items, i + 1, examples)
    ELSE IF items[i].law_ids \in {"null", "number"}
    THEN [error |-> "TypeError", examples |-> <<>>]
    ELSE queries_loop(items, i + 1,
             Append(examples,
                    Example(query_of(items[i]).text,
                            IF items[i].law_ids = "absent" THEN <<>>
                            ELSE normalize_law_ids(items[i].ids),
                            items[i].source)))

load_queries(items) == queries_loop(items, 1, <<>>)

\* ---------------------------------------- specification: loading
LinePool ==
    {Line("blank", NoneInt, <<>>), Line("garbage", NoneInt, <<>>),
     Line("array", NoneInt, <<>>), Line("object", NoneInt, <<"a">>),
     Line("object", TextId, <<"a">>), Line("object", 1, <<"a", " ", "b">>),
     Line("object", 2, <<"a">>)}
ItemPool ==
    {Item("string", "absent", "absent", "absent", <<>>, ""),
     Item("object", "absent", "absent", "list", <<1>>, "s1"),
     Item("object", "blank", "absent", "list", <<1>>, ""),
     Item("object", "number", "absent", "list", <<1>>, ""),
     Item("object", "text", "absent", "list", <<1, NoneInt, TextId, 2>>, "s1"),
     Item("object", "empty", "text", "absent", <<>>, ""),
     Item("object", "text", "absent", "null", <<>>, "s1"),
     Item("object", "text", "absent", "number", <<>>, "")}

\* main before a loader is called: the corpus file, or the query file.
InitLoad ==
    /\ \/ pc = "corpus_file" /\ lines \in SeqsUpTo(LinePool, MaxLines) /\ data = <<>>
       \/ pc = "query_file" /\ lines = <<>> /\ data \in SeqsUpTo(ItemPool, MaxItems)
    /\ queries = <<>> /\ idx = 0 /\ results = <<>>
    /\ per_source_metrics = <<>> /\ per_source_scores = <<>>
    /\ NoRetriever
    /\ NoMetrics

LoadLawCorpus ==
    /\ pc = "corpus_file"
    /\ corpus' = load_law_corpus(lines).documents
    /\ error' = load_law_corpus(lines).error
    /\ pc' = "corpus_loaded"
    /\ UNCHANGED <<retriever, index, query, top_k, response, retrieved,
                   metricVars, aggVars, loadVars, runVars>>

LoadQueries ==
    /\ pc = "query_file"
    /\ queries' = load_queries(data).examples
    /\ error' = load_queries(data).error
    /\ pc' = "queries_loaded"
    /\ UNCHANGED <<retriever, corpus, index, query, top_k, response, retrieved,
                   metricVars, aggVars, loadVars, idx, results,
                   per_source_metrics, per_source_scores>>

NextLoad == LoadLawCorpus \/ LoadQueries

SpecLoad == InitLoad /\ [][NextLoad]_vars

\* --------------------------------------------- claims on one query
\* The ids of a list (None entries dropped) and of its first k entries.
IdsOf(list) == {x \in {list[i] : i \in DOMAIN list} : x # NoneInt}
FirstK(list, k) == {list[i] : i \in {j \in DOMAIN list : k = NoneInt \/ j <= k}}
G == IdsOf(ground_truth)
Evaluated == pc = "evaluated"
\* x <= y on floats.
FLeq(x, y) == BigGeq(y, x)

\* C1: recall is None when G has no ids, and otherwise it is
\* |G /\ first k of P| / |G|, a value in [0, 1], also with repeated ids in P.
C1_Recall ==
    Evaluated =>
        IF G = {} THEN metrics.recall = None
        ELSE /\ metrics.recall =
                    FDiv(FromInt(Cardinality(G \cap FirstK(predictions, cutoff))),
                         FromInt(Cardinality(G)))
             /\ FLeq(FZero, metrics.recall) /\ FLeq(metrics.recall, FOne)

\* A query whose prediction repeats a relevant id and misses another one.
C1_Witness ==
    /\ Evaluated /\ Cardinality(G) = 2
    /\ \E i, j \in DOMAIN predictions :
           i < j /\ predictions[i] = predictions[j] /\ predictions[i] \in G
                 /\ cutoff # NoneInt /\ j <= cutoff
    /\ metrics.recall = FDiv(FOne, FromInt(2))

\* The first |G| entries of P are exactly the ids of G, and k >= |G|.
PerfectPrefix ==
    /\ G # {} /\ cutoff # NoneInt /\ cutoff >= Cardinality(G)
    /\ Len(predictions) >= Cardinality(G)
    /\ {predictions[i] : i \in 1..Cardinality(G)} = G
\* Within the first k entries, an id of G comes after an entry not in G.
HitAfterMiss ==
    \E i, j \in DOMAIN predictions :
        /\ i < j /\ j <= cutoff
        /\ predictions[i] \notin G /\ predictions[j] \in G

\* C2 as stated: a perfectly ranked prediction followed by any entries at
\* all has ndcg 1.0 exactly.
C2_PerfectAnyTail == (Evaluated /\ PerfectPrefix) => metrics.ndcg = FOne

\* C2 amended: a perfectly ranked prediction has ndcg 1.0 exactly provided
\* that within the first k entries no id of G comes after an entry that is
\* not in G; when one does, ndcg is strictly below 1.0.
C2_PerfectNdcg ==
    (Evaluated /\ PerfectPrefix) =>
        IF HitAfterMiss
        THEN metrics.ndcg # FOne /\ FLeq(metrics.ndcg, FOne)
        ELSE metrics.ndcg = FOne

\* A perfect prefix followed by a repeated relevant id and then a miss.
C2_Witness ==
    /\ Evaluated /\ PerfectPrefix /\ ~HitAfterMiss
    /\ Len(predictions) = 3 /\ cutoff = 3
    /\ predictions[2] \in G /\ predictions[3] \notin G /\ Cardinality(G) = 1
    /\ metrics.ndcg = FOne

\* The 1-based positions of the relevant entries among the first k.
HitPositions ==
    {i \in DOMAIN predictions :
        predictions[i] \in G /\ (cutoff = NoneInt \/ i <= cutoff)}
FirstHit == CHOOSE i \in HitPositions : \A j \in HitPositions : i <= j

\* C3: for non-empty G, mrr is 1 / (i + 1) for the 0-based index i < k of
\* the first relevant entry, and 0.0 when none of the first k is relevant.
C3_Mrr ==
    (Evaluated /\ G # {}) =>
        IF HitPositions = {} THEN metrics.mrr = FZero
        ELSE metrics.mrr = FDiv(FOne, FromInt(FirstHit))

\* The first relevant entry is the third one, inside the cutoff.
C3_Witness ==
    /\ Evaluated /\ G # {} /\ HitPositions # {} /\ FirstHit = 3
    /\ metrics.mrr = FDiv(FOne, FromInt(3))

\* C4: for non-empty G and a prediction with none of G's ids (the empty
\* list included), all three metrics are computed zeros, for every k.
C4_NoHitZero ==
    (Evaluated /\ G # {} /\ IdsOf(predictions) \cap G = {}) =>
        metrics = [ndcg |-> FZero, recall |-> FZero, mrr |-> FZero]

\* An empty prediction list (a failed retrieval) scored at cutoff 0.
C4_Witness ==
    /\ Evaluated /\ G # {} /\ predictions = <<>> /\ cutoff = 0
    /\ metrics.ndcg = FZero /\ metrics.recall = FZero /\ metrics.mrr = FZero

\* The records of the pool that evaluate_query returns.
Produced == RecordPool \ {NdcgOnly}
InUnit(x) == x # None /\ FLeq(FZero, x) /\ FLeq(x, FOne)
\* The loop's three counts over a list of records are one number.
CountsCoincide(list) ==
    LET counts == agg_loop(agg_start, list, 1).counts
    IN  counts["ndcg"] = counts["recall"] /\ counts["recall"] = counts["mrr"]

\* C11: the record of evaluate_query(G, P, k) has ndcg, recall and mrr all
\* None when G has no ids, and otherwise each of them is a value in [0, 1]
\* (repeated ids in P, k >= 0 or None); so the three counts of
\* aggregate_metrics coincide over lists of such records.
C11_WellFormed ==
    Evaluated =>
        /\ IF G = {} THEN \A key \in Keys : metrics[key] = None
           ELSE \A key \in Keys : InUnit(metrics[key])
        /\ \A rest \in SeqsUpTo(Produced, MaxRecords - 1) :
               /\ CountsCoincide(<<metrics>> \o rest)
               /\ CountsCoincide(rest \o <<metrics>>)

\* A prediction that repeats the relevant id after a miss: recall 1.0,
\* mrr 1/2 and an ndcg strictly between 0 and 1.
C11_Witness ==
    /\ Evaluated /\ G = {1} /\ predictions = <<2, 1, 1>> /\ cutoff = 3
    /\ metrics.recall = FOne /\ metrics.mrr = FDiv(FOne, FromInt(2))
    /\ InUnit(metrics.ndcg) /\ metrics.ndcg # FOne /\ metrics.ndcg # FZero

\* ------------------------------------------- claims on aggregation
Aggregated == pc = "aggregated"
\* The permutations of 1..n and a list rearranged by one.
Perms(n) == {f \in [1..n -> 1..n] : \A i, j \in 1..n : f[i] = f[j] => i = j}
Permuted(list, f) == [i \in 1..Len(list) |-> list[f[i]]]
\* |x - y| <= 2^-48 on floats.
FClose(x, y) ==
    IF BigGeq(x, y) THEN BigGeq(<<0, 0, 2^21>>, BigSub(x, y))
    ELSE BigGeq(<<0, 0, 2^21>>, BigSub(y, x))

\* C8 as stated: every permutation of the records has the same aggregate.
C8_SameAggregate ==
    Aggregated =>
        \A f \in Perms(Len(per_query)) :
            aggregate_metrics(Permuted(per_query, f)) = averaged

\* C8 amended: every permutation of the records has the same
\* evaluated_queries, total_queries and hit_rate, the same metrics are
\* None, and the three means agree up to the rounding of the float sums
\* (within 2^-48), not bit for bit.
C8_OrderIndependent ==
    Aggregated =>
        \A f \in Perms(Len(per_query)) :
            LET other == aggregate_metrics(Permuted(per_query, f))
            IN  /\ other.evaluated_queries = averaged.evaluated_queries
                /\ other.total_queries = averaged.total_queries
                /\ other.hit_rate = averaged.hit_rate
                /\ \A key \in Keys :
                       IF averaged[key] = None THEN other[key] = None
                       ELSE other[key] # None /\ FClose(other[key], averaged[key])

\* Three records whose recall mean depends on the order of the sum.
C8_Witness ==
    /\ Aggregated /\ Len(per_query) = 3
    /\ \E f \in Perms(3) :
           LET other == aggregate_metrics(Permuted(per_query, f))
           IN  other.recall # averaged.recall /\ FClose(other.recall, averaged.recall)

\* list with entry put in before position i (i = Len + 1 appends).
Inserted(list, i, entry) ==
    [j \in 1..(Len(list) + 1) |->
        IF j < i THEN list[j] ELSE IF j = i THEN entry ELSE list[j - 1]]
\* The number of records with a defined, positive recall.
Hits(list) ==
    Cardinality({i \in DOMAIN list : list[i].recall # None /\ list[i].recall # FZero})

\* C9 as stated: a record of a query without ground truth, added anywhere,
\* raises total_queries by one and leaves ndcg, recall, mrr and hit_rate.
C9_NoLabelNoEffect ==
    Aggregated =>
        \A i \in 1..(Len(per_query) + 1) :
            LET more == aggregate_metrics(Inserted(per_query, i, NoRecord))
            IN  /\ more.total_queries = averaged.total_queries + 1
                /\ more.ndcg = averaged.ndcg /\ more.recall = averaged.recall
                /\ more.mrr = averaged.mrr /\ more.hit_rate = averaged.hit_rate

\* C9 amended: such a record raises total_queries by one and leaves ndcg,
\* recall, mrr and evaluated_queries; hit_rate keeps its numerator while
\* its denominator grows by one: hits / (total_queries + 1).
C9_NoLabelRecord ==
    Aggregated =>
        \A i \in 1..(Len(per_query) + 1) :
            LET more == aggregate_metrics(Inserted(per_query, i, NoRecord))
            IN  /\ more.total_queries = averaged.total_queries + 1
                /\ more.ndcg = averaged.ndcg /\ more.recall = averaged.recall
                /\ more.mrr = averaged.mrr
                /\ more.evaluated_queries = averaged.evaluated_queries
                /\ more.hit_rate =
                       FDiv(FromInt(Hits(per_query)), FromInt(Len(per_query) + 1))

\* Records with a hit: the added record lowers hit_rate and nothing else.
C9_Witness ==
    /\ Aggregated /\ Len(per_query) = 2 /\ Hits(per_query) = 1
    /\ averaged.hit_rate = FDiv(FOne, FromInt(2))
    /\ aggregate_metrics(Inserted(per_query, 2, NoRecord)).hit_rate
           = FDiv(FOne, FromInt(3))
    /\ aggregate_metrics(Inserted(per_query, 2, NoRecord)).recall = averaged.recall

\* The values of one metric that are not None, in list order.
RECURSIVE Computed(_, _, _)
Computed(list, key, i) ==
    IF i > Len(list) THEN <<>>
    ELSE IF list[i][key] = None THEN Computed(list, key, i + 1)
    ELSE <<list[i][key]>> \o Computed(list, key, i + 1)
\* The float sum of the first n values, added from left to right.
RECURSIVE SumTo(_, _)
SumTo(values, n) ==
    IF n = 0 THEN FZero ELSE FAdd(SumTo(values, n - 1), values[n])
MeanOf(values) ==
    IF values = <<>> THEN None
    ELSE FDiv(SumTo(values, Len(values)), FromInt(Len(values)))
MaxLen(S) == CHOOSE n \in {Len(x) : x \in S} : \A x \in S : Len(x) <= n

\* C10: total_queries is the number of records, each metric is the mean of
\* its values that are not None (None without any), evaluated_queries is
\* the largest of the three counts, and hit_rate is the number of records
\* with a defined recall > 0 over total_queries (None for the empty list).
C10_Aggregate ==
    Aggregated =>
        /\ averaged.total_queries = Len(per_query)
        /\ \A key \in Keys : averaged[key] = MeanOf(Computed(per_query, key, 1))
        /\ averaged.evaluated_queries =
               MaxLen({Computed(per_query, key, 1) : key \in Keys})
        /\ averaged.hit_rate =
               IF per_query = <<>> THEN None
               ELSE FDiv(FromInt(Hits(per_query)), FromInt(Len(per_query)))

\* Records whose three metrics have different counts, one of them a hit.
C10_Witness ==
    /\ Aggregated /\ Len(per_query) = 3
    /\ Len(Computed(per_query, "ndcg", 1)) = 3
    /\ Len(Computed(per_query, "recall", 1)) = 1
    /\ averaged.evaluated_queries = 3
    /\ averaged.hit_rate = FDiv(FOne, FromInt(3))

\* --------------------------------------------- claims on retrieval
LexicalSearched == pc = "searched" /\ retriever = "lexical"
RemoteSearched == pc = "searched" /\ retriever = "remote"
Terms(text) == {tokenize(text)[i] : i \in DOMAIN tokenize(text)}
\* The documents whose content is exactly the query text.
Exact == {d \in DOMAIN corpus : Len(query) > 0 /\ corpus[d].content = query}
Disjoint(d) ==
    \A e \in DOMAIN corpus \ {d} : Terms(corpus[e].content) \cap Terms(query) = {}
Position(d) == {i \in DOMAIN retrieved : retrieved[i].law_id = corpus[d].doc_id}

\* C5 as stated: the lexical model, queried with the exact non-empty content
\* of a document d (and asked for at least one result), returns d at
\* position 0, whatever the other documents are.
C5_ExactFirst ==
    LexicalSearched /\ top_k >= 1 =>
        \A d \in Exact : Len(retrieved) >= 1 /\ retrieved[1].law_id = corpus[d].doc_id

\* C5, amended: queried with the exact content of a document d that yields at
\* least one term, the lexical model returns d at position 0 when top_k >= 1
\* and no other document shares a term with d, and returns d somewhere in
\* the list when top_k is at least the number of documents.
C5_ExactRanked ==
    LexicalSearched /\ top_k >= 1 =>
        \A d \in Exact :
            Terms(query) # {} =>
                /\ Disjoint(d) => Len(retrieved) >= 1 /\ 1 \in Position(d)
                /\ top_k >= Len(corpus) => Position(d) # {}

\* d = document 2 of three, alone with its terms, is first of the results.
C5_Witness ==
    /\ LexicalSearched /\ top_k = 1 /\ Len(corpus) = 3
    /\ 2 \in Exact /\ Terms(query) # {} /\ Disjoint(2)
    /\ Len(retrieved) = 1 /\ retrieved[1].law_id = 2

\* C6 as stated: for both retrievers, every query and every top_k >= 0, the
\* returned list has at most top_k entries (none for top_k = 0).
C6_AtMostTopK == pc = "searched" => Len(retrieved) <= top_k

\* The remote retriever asked for no result returns one.
C6_Witness == RemoteSearched /\ top_k = 0 /\ error = "" /\ Len(retrieved) = 1

\* C7 as stated: whatever the HTTP call comes to, RemoteRetriever.search
\* returns a list and raises no exception.
C7_NeverRaises == RemoteSearched => error = ""

\* A decoded body whose "score" is no number makes search raise.
C7_Witness ==
    /\ RemoteSearched /\ response.kind = "json" /\ response.first = "list"
    /\ error = "ValueError"

\* C12: LexicalRetriever.search returns the empty list, and raises nothing,
\* for an empty or whitespace-only query over any corpus, for a query that
\* yields no term, and for any query over an empty corpus.
C12_EmptyResult ==
    LexicalSearched /\ (IsBlank(query) \/ Terms(query) = {} \/ corpus = <<>>) =>
        retrieved = <<>> /\ error = ""

\* A query of punctuation only, over a corpus with an indexed term.
C12_Witness ==
    /\ LexicalSearched /\ query = <<",">> /\ top_k >= 1
    /\ \E d \in DOMAIN corpus : Terms(corpus[d].content) # {}
    /\ retrieved = <<>>

\* The documents that share a term with the query, by position.
Candidates ==
    {d \in DOMAIN corpus : Terms(corpus[d].content) \cap Terms(query) # {}}
\* The position in the corpus of the document of a returned entry (ids are
\* positions in the corpora of this specification).
DocOf(entry) == CHOOSE d \in DOMAIN corpus : corpus[d].doc_id = entry.law_id
\* entry x is ranked before entry y: a higher score, or the same score and
\* an earlier place in the corpus.
RankedBefore(x, y) ==
    x.score > y.score \/ (x.score = y.score /\ DocOf(x) < DocOf(y))

\* C14: for a non-empty query the lexical search returns the first top_k
\* entries of the list of exactly the documents that share a term with the
\* query, each with a score > 0, in the order of non-increasing score,
\* documents of equal score in corpus order.
C14_RankedCandidates ==
    LexicalSearched /\ Len(query) > 0 =>
        LET full == lexical_search(index, query, Len(corpus))
        IN  /\ {full[i].law_id : i \in DOMAIN full} = {corpus[d].doc_id : d \in Candidates}
            /\ Len(full) = Cardinality(Candidates)
            /\ \A i \in DOMAIN full : full[i].score > 0
            /\ \A i, j \in DOMAIN full : i < j => RankedBefore(full[i], full[j])
            /\ retrieved = SubSeq(full, 1, Min(top_k, Len(full)))

\* Three candidates, two of them with the same score, cut to two: the
\* earlier document of the tie is returned first.
C14_Witness ==
    /\ LexicalSearched /\ top_k = 2 /\ Cardinality(Candidates) = 3
    /\ Len(corpus) = 4 /\ Len(retrieved) = 2
    /\ retrieved[1].score = retrieved[2].score
    /\ DocOf(retrieved[1]) < DocOf(retrieved[2])
    /\ DocOf(retrieved[1]) > 1

\* ------------------------------------------------- claims on the run
\* The loop has appended one result and one record per query taken, in
\* input order.
OnePerQuery ==
    /\ Len(results) = idx /\ Len(per_query) = idx /\ idx <= Len(queries)
    /\ \A i \in 1..idx :
           /\ results[i].query = queries[i].query
           /\ results[i].law_ids = queries[i].law_ids
           /\ results[i].metrics = per_query[i]

\* C13 as stated: the loop takes the queries one after another in input
\* order, appends one result and one metric record for each (also for an
\* empty retrieval), always reaches aggregation, and then the numbers of
\* results and of records and total_queries are the number of queries.
C13_LoopCompletes ==
    /\ [](pc \in {"loop", "aggregated", "failed"} => OnePerQuery)
    /\ <>(pc = "aggregated")
    /\ [](pc = "aggregated" =>
              /\ Len(results) = Len(queries) /\ Len(per_query) = Len(queries)
              /\ averaged.total_queries = Len(queries))

\* The remote retriever raises on the second of three queries: main is
\* left with one result and never aggregates.
C13_Witness ==
    /\ pc = "failed" /\ retriever = "remote" /\ error = "ValueError"
    /\ Len(queries) = 3 /\ idx = 1 /\ Len(results) = 1 /\ averaged = None

\* The partition a query belongs to, and the records of the queries of
\* partition s among queries i, i + 1, ..., in input order.
Label(example) == IF example.source = "" THEN "unspecified" ELSE example.source
RECURSIVE RecordsOf(_, _)
RecordsOf(s, i) ==
    IF i > Len(queries) THEN <<>>
    ELSE IF Label(queries[i]) = s THEN <<per_query[i]>> \o RecordsOf(s, i + 1)
    ELSE RecordsOf(s, i + 1)
Labels == {Label(queries[i]) : i \in DOMAIN queries}

\* C15: after the run the source partitions are the labels of the queries
\* ("unspecified" without a label), each holds exactly the records of its
\* queries, its aggregate is aggregate_metrics of these records alone, and
\* the per-source total_queries and evaluated_queries sum to the overall.
C15_Partition ==
    pc = "aggregated" =>
        /\ DOMAIN per_source_metrics = Labels
        /\ DOMAIN per_source_scores = Labels
        /\ \A s \in Labels :
               /\ per_source_metrics[s] = RecordsOf(s, 1)
               /\ per_source_scores[s] = aggregate_metrics(RecordsOf(s, 1))
        /\ SumOver(Labels, [s \in Labels |-> Len(per_source_metrics[s])]) = Len(per_query)
        /\ SumOver(Labels, [s \in Labels |-> per_source_scores[s].total_queries])
               = averaged.total_queries
        /\ SumOver(Labels, [s \in Labels |-> per_source_scores[s].evaluated_queries])
               = averaged.evaluated_queries

\* Three queries in two partitions, one of them "unspecified", the other
\* with a query without ground truth.
C15_Witness ==
    /\ pc = "aggregated" /\ Len(queries) = 3
    /\ Labels = {"s1", "unspecified"}
    /\ Len(per_source_metrics["s1"]) = 2
    /\ per_source_scores["s1"].evaluated_queries = 1
    /\ per_source_scores["unspecified"].total_queries = 1
    /\ averaged.evaluated_queries = 2 /\ averaged.total_queries = 3

GoodLine(line) == line.kind = "object" /\ IsCoercible(line.id)
Usable(item) ==
    /\ item.kind = "object"
    /\ item.query = "text" \/ (item.query \in {"absent", "empty"} /\ item.question = "text")
\* The documents of the good lines, in file order.
GoodDocuments ==
    LET good == SelectSeq(lines, GoodLine)
    IN  [i \in 1..Len(good) |-> [doc_id |-> good[i].id, content |-> good[i].content]]
\* The example of a usable entry: its coercible ids, none without a list.
ExampleOf(item) ==
    Example(IF item.query = "text" THEN QueryText ELSE QuestionText,
            IF item.law_ids = "list" THEN SelectSeq(item.ids, IsCoercible) ELSE <<>>,
            item.source)
HasList(item) == item.law_ids \in {"list", "absent"}
UsableWithList(item) == Usable(item) /\ HasList(item)
\* The examples of the usable entries, in input order; an entry whose
\* law_ids is no list is loaded without ids (keep) or skipped.
GoodExamples(keep) ==
    LET good == IF keep THEN SelectSeq(data, Usable) ELSE SelectSeq(data, UsableWithList)
    IN  [i \in 1..Len(good) |-> ExampleOf(good[i])]

\* C16 as stated: load_law_corpus skips blank lines, lines that are no JSON,
\* JSON that is no object and objects without an integer id, returns the
\* documents of the good lines in file order and fails only when there is
\* none; load_queries skips non-objects and entries without a usable
\* query, drops the ids that are not coercible and returns the remaining
\* examples in input order, whatever law_ids is.
C16_SkipAndContinue ==
    /\ pc = "corpus_loaded" =>
           IF GoodDocuments = <<>> THEN error = "ValueError"
           ELSE error = "" /\ corpus = GoodDocuments
    /\ pc = "queries_loaded" =>
           error = "" /\ queries \in {GoodExamples(TRUE), GoodExamples(FALSE)}

\* A good line followed by a line holding a JSON array: the load is left
\* by an AttributeError.
C16_Witness ==
    /\ pc = "corpus_loaded" /\ Len(lines) = 2
    /\ GoodLine(lines[1]) /\ lines[2].kind = "array"
    /\ error = "AttributeError" /\ corpus = <<>>

====
